---------------------------- MODULE Spec2Model ----------------------------
(***************************************************************************)
(* A model of reclient_cfgs/configure_reclient_cfgs.py: the script that    *)
(* resolves toolchain revisions, fetches the matching reclient cfg         *)
(* packages with `cipd ensure' and renders reproxy.cfg from a template.    *)
(*                                                                         *)
(* Python strings are sequences of one-character strings, so that the      *)
(* parsing and formatting the script does (str.split, str.strip, re.match, *)
(* re.fullmatch, string.Template.substitute) is computed character by      *)
(* character.  Python's None is the one-element sequence <<"<None>">>: its *)
(* element is no character, so None differs from every string, the empty   *)
(* string included.                                                        *)
(***************************************************************************)
EXTENDS Integers, Sequences, FiniteSets, TLC

None == <<"<None>">>

\* Python truthiness of an Optional[str]: `not x' is true of None and of ''.
Falsy(x) == x = None \/ x = <<>>

(***************************************************************************)
(* Character classes.                                                      *)
(***************************************************************************)
LowerCase ==
    {"a","b","c","d","e","f","g","h","i","j","k","l","m"} \cup
    {"n","o","p","q","r","s","t","u","v","w","x","y","z"}

UpperCase ==
    {"A","B","C","D","E","F","G","H","I","J","K","L","M"} \cup
    {"N","O","P","Q","R","S","T","U","V","W","X","Y","Z"}

Digits == {"0","1","2","3","4","5","6","7","8","9"}

\* [0-9a-f] of the commit pattern.
HexChars == Digits \cup {"a","b","c","d","e","f"}

\* [-\w] of the instance pattern (over the ASCII characters of the model).
WordChars == LowerCase \cup UpperCase \cup Digits \cup {"_", "-"}

\* string.Template's idpattern (?a:[_a-z][_a-z0-9]*) under re.IGNORECASE.
IdStartChars == LowerCase \cup UpperCase \cup {"_"}
IdChars == IdStartChars \cup Digits

\* The characters str.strip() removes.
Whitespace == {" ", "\t", "\n", "\r", "\f"}

(***************************************************************************)
(* The script's string constants.                                          *)
(***************************************************************************)
REPROXY_CFG_HEADER ==
    <<"#"," ","A","U","T","O","G","E","N","E","R","A","T","E","D"," ","F",
      "I","L","E"," ","-"," ","D","O"," ","N","O","T"," ","E","D","I","T",
      "\n","#"," ","G","e","n","e","r","a","t","e","d"," ","b","y"," ","c",
      "o","n","f","i","g","u","r","e","_","r","e","c","l","i","e","n","t",
      "_","c","f","g","s",".","p","y","\n","#"," ","T","o"," ","e","d","i",
      "t",":","\n","#"," ","U","p","d","a","t","e"," ","r","e","p","r","o",
      "x","y","_","c","f","g","_","t","e","m","p","l","a","t","e","s","/",
      "$","r","e","p","r","o","x","y","_","c","f","g","_","t","e","m","p",
      "l","a","t","e","\n","#"," ","A","n","d"," ","r","u","n"," ","'","g",
      "c","l","i","e","n","t"," ","s","y","n","c","'"," ","o","r"," ","'",
      "g","c","l","i","e","n","t"," ","r","u","n","h","o","o","k","s","'",
      "\n">>

AUTO_AUTH_FLAGS ==
    <<"\n","#"," ","G","o","o","g","l","e","r"," ","a","u","t","h"," ","f",
      "l","a","g","s","\n","a","u","t","o","m","a","t","i","c","_","a","u",
      "t","h","=","t","r","u","e","\n","g","c","e","r","t","_","r","e","f",
      "r","e","s","h","_","t","i","m","e","o","u","t","=","2","0","\n">>

ADC_AUTH_FLAGS ==
    <<"\n","#"," ","A","D","C"," ","a","u","t","h"," ","f","l","a","g","s",
      "\n","u","s","e","_","a","p","p","l","i","c","a","t","i","o","n","_",
      "d","e","f","a","u","l","t","_","c","r","e","d","e","n","t","i","a",
      "l","s","=","t","r","u","e","\n">>

KeyRbeInstance ==
    <<"r","b","e","_","i","n","s","t","a","n","c","e">>

KeyRbeProject ==
    <<"r","b","e","_","p","r","o","j","e","c","t">>

KeyReproxyCfgTemplate ==
    <<"r","e","p","r","o","x","y","_","c","f","g","_","t","e","m","p","l",
      "a","t","e">>

KeyDepsscannerAddress ==
    <<"d","e","p","s","s","c","a","n","n","e","r","_","a","d","d","r","e",
      "s","s">>

KeyAuthFlags ==
    <<"a","u","t","h","_","f","l","a","g","s">>

LitProjects ==
    <<"p","r","o","j","e","c","t","s","/">>

LitInstances ==
    <<"/","i","n","s","t","a","n","c","e","s","/">>

LitExec ==
    <<"e","x","e","c",":","/","/">>

LitBuildtools ==
    <<"b","u","i","l","d","t","o","o","l","s">>

LitReclient ==
    <<"r","e","c","l","i","e","n","t">>

LitScandepsServer ==
    <<"s","c","a","n","d","e","p","s","_","s","e","r","v","e","r">>

LitExe ==
    <<".","e","x","e">>

LitWin ==
    <<"w","i","n">>

LitNone ==
    <<"N","o","n","e">>

LitCfg ==
    <<".","c","f","g">>

PythonRevision ==
    <<"3",".","8",".","0">>

(***************************************************************************)
(* String helpers.                                                         *)
(***************************************************************************)
StartsWith(s, p) == Len(s) >= Len(p) /\ SubSeq(s, 1, Len(p)) = p

EndsWith(s, p) ==
    Len(s) >= Len(p) /\ SubSeq(s, Len(s) - Len(p) + 1, Len(s)) = p

AllIn(s, C) == \A i \in 1..Len(s) : s[i] \in C

\* The concatenation of a sequence of strings.
RECURSIVE Concat(_)
Concat(ss) == IF ss = <<>> THEN <<>> ELSE Head(ss) \o Concat(Tail(ss))

\* The index of the last character of the longest run of characters of C
\* that starts at index i; i - 1 when s[i] is not in C (or i is past the end).
RunEnd(s, i, C) ==
    CHOOSE j \in (i - 1)..Len(s) :
        /\ \A k \in i..j : s[k] \in C
        /\ j = Len(s) \/ s[j + 1] \notin C

\* The index of the first c at or after index i; Len(s) + 1 when there is none.
Find(s, i, c) ==
    IF \E k \in i..Len(s) : s[k] = c
    THEN CHOOSE k \in i..Len(s) : s[k] = c /\ \A j \in i..(k - 1) : s[j] # c
    ELSE Len(s) + 1

\* str.strip(): leading and trailing whitespace removed.
RECURSIVE LStrip(_)
LStrip(s) ==
    IF s # <<>> /\ Head(s) \in Whitespace THEN LStrip(Tail(s)) ELSE s

RECURSIVE RStrip(_)
RStrip(s) ==
    IF s # <<>> /\ s[Len(s)] \in Whitespace
    THEN RStrip(SubSeq(s, 1, Len(s) - 1))
    ELSE s

Strip(s) == RStrip(LStrip(s))

\* str.split(sep) for a one-character separator: the list of the pieces
\* between the separators, always at least one piece.
RECURSIVE Split(_, _)
Split(s, sep) ==
    LET i == Find(s, 1, sep)
    IN  IF i > Len(s) THEN <<s>>
        ELSE <<SubSeq(s, 1, i - 1)>> \o Split(SubSeq(s, i + 1, Len(s)), sep)

\* str(x) of an Optional[str].
Str(x) == IF x = None THEN LitNone ELSE x

(***************************************************************************)
(* Paths.  os.path.join joins with the platform's separator; sys.platform  *)
(* is 'win32' on Windows, where os.sep is a backslash.                     *)
(***************************************************************************)
Platforms ==
    { <<"l","i","n","u","x">>, <<"d","a","r","w","i","n">>,
      <<"w","i","n","3","2">> }

IsWindows(platform) == StartsWith(platform, LitWin)

OsSep(platform) == IF IsWindows(platform) THEN <<"\\">> ELSE <<"/">>

RECURSIVE OsPathJoin(_, _)
OsPathJoin(platform, parts) ==
    IF Len(parts) = 1 THEN parts[1]
    ELSE parts[1] \o OsSep(platform) \o OsPathJoin(platform, Tail(parts))

\* The absolute path of the checkout: two levels above the script.
CHROMIUM_SRC(platform) ==
    IF IsWindows(platform) THEN <<"C",":","\\","s","r","c">>
    ELSE <<"/","s","r","c">>

(***************************************************************************)
(* RbeProjectFromInstance:                                                 *)
(*   re.fullmatch(r'projects/([-\w]+)/instances/[-\w]+', instance)         *)
(* '/' is no word character, so each [-\w]+ can only match the whole run   *)
(* of word characters it starts in.                                        *)
(***************************************************************************)
\* The mutant matches with re.match: text may follow the instance name.
RbeProjectFromInstancePrefix(instance) ==
    LET p0 == Len(LitProjects)
        p1 == RunEnd(instance, p0 + 1, WordChars)
        i0 == p1 + Len(LitInstances)
        i1 == RunEnd(instance, i0 + 1, WordChars)
    IN  IF /\ StartsWith(instance, LitProjects)
           /\ p1 > p0
           /\ Len(instance) >= i0
           /\ SubSeq(instance, p1 + 1, i0) = LitInstances
           /\ i1 > i0
        THEN SubSeq(instance, p0 + 1, p1)
        ELSE None

RbeProjectFromInstance(instance) ==
    LET p0 == Len(LitProjects)
        p1 == RunEnd(instance, p0 + 1, WordChars)
        i0 == p1 + Len(LitInstances)
        i1 == RunEnd(instance, i0 + 1, WordChars)
    IN  IF /\ StartsWith(instance, LitProjects)
           /\ p1 > p0
           /\ Len(instance) >= i0
           /\ SubSeq(instance, p1 + 1, i0) = LitInstances
           /\ i1 > i0
           /\ i1 = Len(instance)
        THEN SubSeq(instance, p0 + 1, p1)
        ELSE None

(***************************************************************************)
(* string.Template(tmpl).substitute(mapping).  The delimiter pattern is    *)
(*   \$(?: (\$) | (id) | {(id)} | () )   with id = [_a-z][_a-z0-9]*        *)
(* matched ignoring case: "$$" is an escaped "$", "$id" and "${id}" are    *)
(* replaced by str(mapping[id]) (KeyError when id is no key), and any      *)
(* other "$" is invalid (ValueError).  The text is scanned left to right   *)
(* and the replacement text is not scanned again.                          *)
(***************************************************************************)
SubstPrepend(out, rest) ==
    IF rest.exc # "none" THEN rest
    ELSE [exc |-> "none", out |-> out \o rest.out]

\* The text from index i on: the literal text up to the next "$" is kept,
\* then the "$" is treated by the alternative of the pattern that matches.
RECURSIVE SubstituteFrom(_, _, _)
SubstituteFrom(s, i, mapping) ==
    LET d == Find(s, i, "$")
        text == SubSeq(s, i, d - 1)
    IN  IF d > Len(s) THEN [exc |-> "none", out |-> text]
        ELSE IF d < Len(s) /\ s[d + 1] = "$"
        THEN SubstPrepend(text \o <<"$">>, SubstituteFrom(s, d + 2, mapping))
        ELSE IF d < Len(s) /\ s[d + 1] \in IdStartChars
        THEN LET j == RunEnd(s, d + 1, IdChars)
                 id == SubSeq(s, d + 1, j)
             IN  IF id \in DOMAIN mapping
                 THEN SubstPrepend(text \o Str(mapping[id]),
                                   SubstituteFrom(s, j + 1, mapping))
                 ELSE [exc |-> "KeyError", out |-> <<>>]
        ELSE IF /\ d + 1 < Len(s)
                /\ s[d + 1] = "{"
                /\ s[d + 2] \in IdStartChars
                /\ RunEnd(s, d + 2, IdChars) < Len(s)
                /\ s[RunEnd(s, d + 2, IdChars) + 1] = "}"
        THEN LET j == RunEnd(s, d + 2, IdChars)
                 id == SubSeq(s, d + 2, j)
             IN  IF id \in DOMAIN mapping
                 THEN SubstPrepend(text \o Str(mapping[id]),
                                   SubstituteFrom(s, j + 2, mapping))
                 ELSE [exc |-> "KeyError", out |-> <<>>]
        ELSE [exc |-> "ValueError", out |-> <<>>]

Substitute(tmpl, mapping) == SubstituteFrom(tmpl, 1, mapping)

(***************************************************************************)
(* Files.  A regular file is its content; NoFile is a missing file.        *)
(***************************************************************************)
NoFile == None

\* with open(path, 'w') as f: f.write(data) -- the file is truncated first.
WriteFileAppending(old, data) == IF old = NoFile THEN data ELSE old \o data

WriteFile(old, data) == data

\* The scanner address and the auth flags of the platform.
DepsscannerAddress(platform) ==
    LitExec
    \o OsPathJoin(platform, <<CHROMIUM_SRC(platform), LitBuildtools,
                              LitReclient, LitScandepsServer>>)
    \o (IF IsWindows(platform) THEN LitExe ELSE <<>>)

AuthFlags(platform) ==
    IF IsWindows(platform) THEN ADC_AUTH_FLAGS ELSE AUTO_AUTH_FLAGS

TemplateMapping(platform, reproxy_cfg_template, rbe_instance, rbe_project) ==
    (KeyRbeInstance :> rbe_instance)
    @@ (KeyRbeProject :> rbe_project)
    @@ (KeyReproxyCfgTemplate :> reproxy_cfg_template)
    @@ (KeyDepsscannerAddress :> DepsscannerAddress(platform))
    @@ (KeyAuthFlags :> AuthFlags(platform))

(***************************************************************************)
(* GenerateReproxyCfg.  tmpls is the directory reproxy_cfg_templates (file *)
(* name -> content), old the present reproxy.cfg.  The result is the       *)
(* return value (or the exception substitute raised), the reproxy.cfg left *)
(* behind and what was logged.                                             *)
(***************************************************************************)
\* Lines 136-138: the template is no file.  Nothing was opened for writing
\* yet, so reproxy.cfg stays as it is.  The mutant has already truncated it.
TemplateMissingTruncating(old) ==
    [exc |-> "none", ret |-> FALSE, file |-> <<>>,
     log |-> {"warning: template does not exist"}]

TemplateMissing(old) ==
    [exc |-> "none", ret |-> FALSE, file |-> old,
     log |-> {"warning: template does not exist"}]

GenerateReproxyCfg(tmpls, old, platform, reproxy_cfg_template, rbe_instance, rbe_project) ==
    IF reproxy_cfg_template \notin DOMAIN tmpls
    THEN TemplateMissing(old)
    ELSE LET cfg == Substitute(
                        REPROXY_CFG_HEADER \o tmpls[reproxy_cfg_template],
                        TemplateMapping(platform, reproxy_cfg_template,
                                        rbe_instance, rbe_project))
         IN  IF cfg.exc # "none"
             THEN [exc |-> cfg.exc, ret |-> FALSE, file |-> old, log |-> {}]
             ELSE [exc |-> "none", ret |-> TRUE,
                   file |-> WriteFile(old, cfg.out), log |-> {}]

(***************************************************************************)
(* Revision resolution.                                                    *)
(***************************************************************************)
MinHexLen == 40

\* re.match('^[0-9a-f]{40,}$', commit): without re.MULTILINE `$' matches at
\* the end of the string and also just before a newline that ends it.
MatchesCommit(commit) ==
    LET body == IF commit # <<>> /\ commit[Len(commit)] = "\n"
                THEN {commit, SubSeq(commit, 1, Len(commit) - 1)}
                ELSE {commit}
    IN  \E h \in body : Len(h) >= MinHexLen /\ AllIn(h, HexChars)

\* The try block of NaclRevision on the stripped output of gclient revinfo:
\* the piece between the first and the second "@" is the commit.
ParseRevinfo(revinfo) ==
    LET parts == Split(revinfo, "@")
    IN  IF Len(parts) < 2 THEN [ret |-> None, warned |-> TRUE]
        ELSE IF ~MatchesCommit(parts[2])
        THEN [ret |-> None, warned |-> TRUE]
        ELSE [ret |-> parts[2], warned |-> FALSE]

\* n is the native_client checkout and what the tools answer there:
\*   readme, gitdir : README.md exists, .git is a directory
\*   git_rc, git_out : exit status and stdout of `git log -1 --format=%H'
\*   gclient_rc, gclient_out : the same of `gclient revinfo --filter=...'
\* subprocess.run(check=True) raises CalledProcessError on a non-zero status.
NaclRevision(n) ==
    IF ~n.readme THEN [exc |-> "none", ret |-> None, warned |-> FALSE]
    ELSE IF n.gitdir
    THEN IF n.git_rc # 0
         THEN [exc |-> "CalledProcessError", ret |-> None, warned |-> FALSE]
         ELSE [exc |-> "none", ret |-> Strip(n.git_out), warned |-> FALSE]
    ELSE IF n.gclient_rc # 0
    THEN [exc |-> "CalledProcessError", ret |-> None, warned |-> FALSE]
    ELSE LET r == ParseRevinfo(Strip(n.gclient_out))
         IN  [exc |-> "none", ret |-> r.ret, warned |-> r.warned]

\* c is tools/clang/scripts/update.py: NoModule when `import update' fails,
\* else its PACKAGE_VERSION.
NoModule == <<"<NoModule>">>

ClangRevision(c) ==
    IF c = NoModule THEN [exc |-> "ModuleNotFoundError", ret |-> None]
    ELSE [exc |-> "none", ret |-> c]

(***************************************************************************)
(* CipdEnsure and IsCipdLoggedIn.  ensure is the exit status and captured  *)
(* output of `cipd ensure', auth_rc the exit status `cipd auth-info' has   *)
(* when it is run.                                                         *)
(***************************************************************************)
IsCipdLoggedIn(auth_rc) == auth_rc = 0

CipdEnsureAlwaysProbing(ensure, auth_rc) ==
    IF ~IsCipdLoggedIn(auth_rc)
    THEN [raised |-> "CipdAuthError", payload |-> ensure.output,
          probed |-> TRUE]
    ELSE IF ensure.rc = 0
    THEN [raised |-> "none", payload |-> "", probed |-> TRUE]
    ELSE [raised |-> "CipdError", payload |-> ensure.output, probed |-> TRUE]

CipdEnsure(ensure, auth_rc) ==
    IF ensure.rc = 0
    THEN [raised |-> "none", payload |-> "", probed |-> FALSE]
    ELSE IF ~IsCipdLoggedIn(auth_rc)
    THEN [raised |-> "CipdAuthError", payload |-> ensure.output,
          probed |-> TRUE]
    ELSE [raised |-> "CipdError", payload |-> ensure.output, probed |-> TRUE]

(***************************************************************************)
(* The win-cross copy of main's loop body.  A directory is the set of its  *)
(* files, each a name, a content and a mode ("r": read-only, "w":          *)
(* writable).  root is the toolchain's directory as `cipd ensure' left it: *)
(* whether it has a win-cross subdirectory, and that subdirectory's files. *)
(* wcedir is win-cross/<toolchain>: whether it exists, and its files.      *)
(***************************************************************************)
\* glob.glob('<dir>/*.cfg'): the files whose name ends in .cfg, hidden ones
\* (a leading dot) left out, as glob does for a pattern that starts with `*'.
GlobCfg(files) ==
    { f \in files : EndsWith(f.name, LitCfg) /\ f.name[1] # "." }

\* Lines 275-280 for one file: an existing target is made writable and
\* removed, then shutil.copy copies content and permission bits.  The mutant
\* leaves out the chmod and remove and gives up on a read-only target.
CopyCfgKeepingReadOnly(target_files, src) ==
    IF \E f \in target_files : f.name = src.name /\ f.mode = "r"
    THEN CHOOSE f \in target_files : f.name = src.name
    ELSE src

CopyCfg(target_files, src) == src

\* Lines 265-280: win-cross/<toolchain> is made when missing; then, when the
\* package has a win-cross subdirectory, each of its *.cfg is copied.
CopyWinCross(root, wcedir) ==
    LET made == IF wcedir.exists THEN wcedir.files ELSE {}
        cfgs == IF root.wincross THEN GlobCfg(root.files) ELSE {}
    IN  [exists |-> TRUE,
         files |-> {f \in made : \A c \in cfgs : c.name # f.name}
                   \cup {CopyCfg(made, c) : c \in cfgs}]

(***************************************************************************)
(* The state: one run of main after another over the same checkout.        *)
(***************************************************************************)
VARIABLES
    args,            \* the parsed command line (--quiet only sets log levels)
    platform,        \* sys.platform
    templates,       \* reproxy_cfg_templates: file name -> content
    reproxy_cfg,     \* the file reproxy.cfg, or NoFile
    cfg_before,      \* reproxy.cfg as it was when this run started
    nacl,            \* the native_client checkout (see NaclRevision)
    clang,           \* update.PACKAGE_VERSION, or NoModule
    roots,           \* toolchain -> the directory cipd ensure filled
    wce,             \* toolchain -> the directory win-cross/<toolchain>
    wce_before,      \* wce as it was when this run started
    pc,              \* main's position, "done" (returned), "raised"
    exit_code,       \* what main returned (-1: nothing yet)
    exc,             \* the exception that left main, or "none"
    rbe_project,     \* main's local rbe_project
    rendered,        \* GenerateReproxyCfg returned True in this run
    tool_revisions,  \* main's dict tool_revisions
    revision_calls,  \* the resolvers called in this run
    idx,             \* the loop's position in tool_revisions
    calls,           \* the CipdEnsure calls of this run, in order
    printed,         \* RequestCipdAuthentication printed its instructions
    log,             \* what was logged in this run
    runs             \* the number of runs started

vars ==
    <<args, platform, templates, reproxy_cfg, cfg_before, nacl, clang, roots,
      wce, wce_before, pc, exit_code, exc, rbe_project, rendered,
      tool_revisions, revision_calls, idx, calls, printed, log, runs>>

\* The checkout: what a run reads and does not write.
world == <<args, platform, templates, nacl, clang>>

\* tool_revisions is built in this order and the loop walks it in this order.
Toolchains == <<"chromium-browser-clang", "nacl", "python">>

ToolchainSet == {Toolchains[i] : i \in 1..Len(Toolchains)}

(***************************************************************************)
(* main, lines 214-222: the usage check and the effective project.         *)
(***************************************************************************)
\* The mutant derives the project from the instance whenever it can.
EffectiveProjectPreferInstance(explicit, instance) ==
    IF ~Falsy(instance) /\ RbeProjectFromInstance(instance) # None
    THEN RbeProjectFromInstance(instance)
    ELSE explicit

EffectiveProject(explicit, instance) ==
    IF ~Falsy(explicit) THEN explicit ELSE RbeProjectFromInstance(instance)

MainValidate ==
    /\ pc = "validate"
    /\ IF Falsy(args.rewrapper_cfg_project) /\ Falsy(args.rbe_instance)
       THEN /\ log' = log \cup {"error: --rbe_instance or project needed"}
            /\ pc' = "done"
            /\ exit_code' = 1
            /\ UNCHANGED rbe_project
       ELSE /\ rbe_project' = EffectiveProject(args.rewrapper_cfg_project,
                                               args.rbe_instance)
            /\ pc' = "template"
            /\ UNCHANGED <<log, exit_code>>
    /\ UNCHANGED <<world, reproxy_cfg, cfg_before, roots, wce, wce_before,
                   exc, rendered, tool_revisions, revision_calls, idx, calls,
                   printed, runs>>

(***************************************************************************)
(* main, lines 224-231: the template.                                      *)
(***************************************************************************)
MainTemplate ==
    /\ pc = "template"
    /\ IF Falsy(args.reproxy_cfg_template)
       THEN /\ pc' = "skip"
            /\ UNCHANGED <<reproxy_cfg, log, exit_code, exc, rendered>>
       ELSE IF Falsy(args.rbe_instance)
       THEN /\ log' = log \cup {"error: --rbe_instance is required"}
            /\ pc' = "done"
            /\ exit_code' = 1
            /\ UNCHANGED <<reproxy_cfg, exc, rendered>>
       ELSE LET g == GenerateReproxyCfg(templates, reproxy_cfg, platform,
                                        args.reproxy_cfg_template,
                                        args.rbe_instance, rbe_project)
            IN  /\ reproxy_cfg' = g.file
                /\ log' = log \cup g.log
                /\ rendered' = g.ret
                /\ exc' = g.exc
                /\ pc' = IF g.exc # "none" THEN "raised"
                         ELSE IF ~g.ret THEN "done" ELSE "skip"
                /\ exit_code' = IF g.exc = "none" /\ ~g.ret THEN 1
                                ELSE exit_code
    /\ UNCHANGED <<world, cfg_before, roots, wce, wce_before, rbe_project,
                   tool_revisions, revision_calls, idx, calls, printed, runs>>

(***************************************************************************)
(* main, lines 233-238: --skip_remoteexec_cfg_fetch, then the start of the *)
(* fetch phase.  posixpath.join(args.cipd_prefix, None) raises TypeError.  *)
(***************************************************************************)
FetchStarted == "info: fetch reclient_cfgs for RBE project" \in log

MainSkip ==
    /\ pc = "skip"
    /\ IF args.skip_remoteexec_cfg_fetch
       THEN /\ pc' = "done"
            /\ exit_code' = 0
            /\ UNCHANGED <<log, exc>>
       ELSE /\ log' = log \cup {"info: fetch reclient_cfgs for RBE project"}
            /\ pc' = IF rbe_project = None THEN "raised" ELSE "resolve"
            /\ exc' = IF rbe_project = None THEN "TypeError" ELSE exc
            /\ UNCHANGED exit_code
    /\ UNCHANGED <<world, reproxy_cfg, cfg_before, roots, wce, wce_before,
                   rbe_project, rendered, tool_revisions, revision_calls,
                   idx, calls, printed, runs>>

(***************************************************************************)
(* main, lines 240-244: the dict of revisions, ClangRevision() first.      *)
(***************************************************************************)
MainResolve ==
    /\ pc = "resolve"
    /\ LET c == ClangRevision(clang)
           n == NaclRevision(nacl)
       IN  IF c.exc # "none"
           THEN /\ pc' = "raised"
                /\ exc' = c.exc
                /\ revision_calls' = revision_calls \cup {"ClangRevision"}
                /\ UNCHANGED <<tool_revisions, log>>
           ELSE IF n.exc # "none"
           THEN /\ pc' = "raised"
                /\ exc' = n.exc
                /\ revision_calls' =
                       revision_calls \cup {"ClangRevision", "NaclRevision"}
                /\ UNCHANGED <<tool_revisions, log>>
           ELSE /\ pc' = "loop"
                /\ tool_revisions' =
                       [t \in ToolchainSet |->
                          IF t = "chromium-browser-clang" THEN c.ret
                          ELSE IF t = "nacl" THEN n.ret
                          ELSE PythonRevision]
                /\ revision_calls' =
                       revision_calls \cup {"ClangRevision", "NaclRevision"}
                /\ log' = IF n.warned
                          THEN log \cup {"warning: could not parse revinfo"}
                          ELSE log
                /\ UNCHANGED exc
    /\ UNCHANGED <<world, reproxy_cfg, cfg_before, roots, wce, wce_before,
                   exit_code, rbe_project, rendered, idx, calls, printed,
                   runs>>

(***************************************************************************)
(* main, lines 245-282: one iteration of the loop, and the return after    *)
(* the last.                                                               *)
(***************************************************************************)
\* Line 247, `if not revision': the mutant tests `revision is None'.
UnresolvedOnlyNone(revision) == revision = None

Unresolved(revision) == Falsy(revision)

\* Lines 259-264: what main does with what CipdEnsure raised.  The mutant
\* has the except clauses in the other order, and CipdAuthError is a
\* CipdError.
OnCipdEnsureGenericFirst(raised) ==
    IF raised \in {"CipdError", "CipdAuthError"}
    THEN [stop |-> TRUE, print |-> FALSE, logged |-> TRUE]
    ELSE [stop |-> FALSE, print |-> FALSE, logged |-> FALSE]

OnCipdEnsure(raised) ==
    IF raised = "CipdAuthError"
    THEN [stop |-> TRUE, print |-> TRUE, logged |-> FALSE]
    ELSE IF raised = "CipdError"
    THEN [stop |-> TRUE, print |-> FALSE, logged |-> TRUE]
    ELSE [stop |-> FALSE, print |-> FALSE, logged |-> FALSE]

\* What `cipd ensure' can answer, and what it can leave in the directory.
EnsureOutcomes ==
    { [rc |-> 0, output |-> "ensured"], [rc |-> 1, output |-> "failed"] }

AuthInfoStatuses == {0, 1}

ACfg == <<"a",".","c","f","g">>
CCfg == <<"c",".","c","f","g">>
HiddenCfg == <<".","h",".","c","f","g">>
NTxt == <<"n",".","t","x","t">>

File(name, content, mode) ==
    [name |-> name, content |-> content, mode |-> mode]

RootContents ==
    { [wincross |-> FALSE, files |-> {}],
      [wincross |-> TRUE, files |-> {File(ACfg, "new a", "r")}],
      [wincross |-> TRUE,
       files |-> {File(ACfg, "new a", "r"), File(NTxt, "new n", "r"),
                  File(HiddenCfg, "new h", "r")}] }

NotFetched == [wincross |-> FALSE, files |-> {}]

Advance ==
    IF idx = Len(Toolchains)
    THEN /\ pc' = "done"
         /\ exit_code' = 0
         /\ UNCHANGED idx
    ELSE /\ idx' = idx + 1
         /\ UNCHANGED <<pc, exit_code>>

MainLoop ==
    /\ pc = "loop"
    /\ LET toolchain == Toolchains[idx]
           revision == tool_revisions[toolchain]
       IN  IF Unresolved(revision)
           THEN /\ log' = log \cup {"info: failed to detect revision"}
                /\ Advance
                /\ UNCHANGED <<calls, printed, roots, wce>>
           ELSE \E ensure \in EnsureOutcomes, auth_rc \in AuthInfoStatuses,
                   root \in RootContents :
                  LET r == CipdEnsure(ensure, auth_rc)
                      h == OnCipdEnsure(r.raised)
                  IN  /\ calls' = Append(calls,
                             [toolchain |-> toolchain,
                              pkg_name |-> <<args.cipd_prefix, rbe_project,
                                             toolchain>>,
                              ref |-> <<"revision/", revision>>,
                              ensure |-> ensure,
                              probed |-> r.probed,
                              auth_rc |-> IF r.probed THEN auth_rc ELSE -1,
                              raised |-> r.raised,
                              payload |-> r.payload])
                      /\ printed' = (printed \/ h.print)
                      /\ log' = IF h.logged
                                THEN log \cup {"error: cipd ensure failed"}
                                ELSE log
                      /\ IF h.stop
                         THEN /\ pc' = "done"
                              /\ exit_code' = 1
                              /\ UNCHANGED <<idx, roots, wce>>
                         ELSE /\ roots' = [roots EXCEPT ![toolchain] = root]
                              /\ wce' = [wce EXCEPT ![toolchain] =
                                           CopyWinCross(root, @)]
                              /\ Advance
    /\ UNCHANGED <<world, reproxy_cfg, cfg_before, wce_before, exc,
                   rbe_project, rendered, tool_revisions, revision_calls,
                   runs>>

(***************************************************************************)
(* The script is a gclient hook: it runs again, with the same command      *)
(* line, over the files the run before left.                               *)
(***************************************************************************)
MaxRuns == 2

RunStart ==
    /\ pc = "validate"
    /\ exit_code = -1
    /\ exc = "none"
    /\ rbe_project = None
    /\ rendered = FALSE
    /\ tool_revisions = [t \in ToolchainSet |-> None]
    /\ revision_calls = {}
    /\ idx = 1
    /\ calls = <<>>
    /\ printed = FALSE
    /\ log = {}

Rerun ==
    /\ pc \in {"done", "raised"}
    /\ runs < MaxRuns
    /\ runs' = runs + 1
    /\ cfg_before' = reproxy_cfg
    /\ wce_before' = wce
    /\ pc' = "validate"
    /\ exit_code' = -1
    /\ exc' = "none"
    /\ rbe_project' = None
    /\ rendered' = FALSE
    /\ tool_revisions' = [t \in ToolchainSet |-> None]
    /\ revision_calls' = {}
    /\ idx' = 1
    /\ calls' = <<>>
    /\ printed' = FALSE
    /\ log' = {}
    /\ UNCHANGED <<world, reproxy_cfg, roots, wce>>

(***************************************************************************)
(* The checkouts and command lines the runs are checked over.              *)
(***************************************************************************)
\* Sequences of at most n pieces, and the strings they spell.
PieceSeqs(P, n) == UNION {[1..k -> P] : k \in 0..n}

Spellings(P, n) == {Concat(ps) : ps \in PieceSeqs(P, n)}

MatchingInstance == LitProjects \o <<"p">> \o LitInstances \o <<"i">>

GoodTemplate ==
    <<"i","n","s","t","a","n","c","e","=","$","r","b","e","_","i","n","s",
      "t","a","n","c","e","\n","p","r","o","j","e","c","t","=","$","{","r",
      "b","e","_","p","r","o","j","e","c","t","}","\n","$","a","u","t","h",
      "_","f","l","a","g","s","$","$","\n">>

BadTemplate == <<"k","e","y","=","$","x","\n">>

TemplateDir == (<<"g">> :> GoodTemplate) @@ (<<"b">> :> BadTemplate)

OldCfg == <<"o","l","d","\n">>

Hex40 == [i \in 1..MinHexLen |-> "a"]

PathAndUrl == <<"s",":"," ","u">>

GitCheckout(rc, out) ==
    [readme |-> TRUE, gitdir |-> TRUE, git_rc |-> rc, git_out |-> out,
     gclient_rc |-> 0, gclient_out |-> <<>>]

ExportedCheckout(rc, out) ==
    [readme |-> TRUE, gitdir |-> FALSE, git_rc |-> 0, git_out |-> <<>>,
     gclient_rc |-> rc, gclient_out |-> out]

NotCloned ==
    [readme |-> FALSE, gitdir |-> FALSE, git_rc |-> 0, git_out |-> <<>>,
     gclient_rc |-> 0, gclient_out |-> <<>>]

NaclCheckouts ==
    { NotCloned,
      GitCheckout(0, Hex40 \o <<"\n">>),
      GitCheckout(0, <<>>),
      GitCheckout(128, <<>>),
      ExportedCheckout(0, PathAndUrl \o <<"@">> \o Hex40 \o <<"\n">>),
      ExportedCheckout(0, PathAndUrl \o <<"\n">>),
      ExportedCheckout(1, <<>>) }

ClangVersions == { NoModule, <<>>, <<"l","l","v","m">> }

NoDir == [exists |-> FALSE, files |-> {}]

WceDirs ==
    { NoDir,
      [exists |-> TRUE, files |-> {}],
      [exists |-> TRUE,
       files |-> {File(ACfg, "old a", "r"), File(CCfg, "old c", "w")}] }

InitRun ==
    /\ cfg_before = reproxy_cfg
    /\ wce_before = wce
    /\ roots = [t \in ToolchainSet |-> NotFetched]
    /\ RunStart
    /\ runs = 1

\* Every command line over a checkout with a good and a bad template.
Init ==
    /\ args \in [rewrapper_cfg_project : {None, <<>>, <<"q">>},
                 reproxy_cfg_template : {None, <<"g">>, <<"b">>, <<"m">>},
                 rbe_instance : {None, <<>>, MatchingInstance, <<"x">>},
                 cipd_prefix : {"infra_internal/rbe/reclient_cfgs"},
                 skip_remoteexec_cfg_fetch : BOOLEAN]
    /\ platform \in Platforms
    /\ templates = TemplateDir
    /\ reproxy_cfg \in {NoFile, OldCfg}
    /\ nacl \in NaclCheckouts
    /\ clang \in ClangVersions
    /\ wce = [t \in ToolchainSet |-> NoDir]
    /\ InitRun

Next == MainValidate \/ MainTemplate \/ MainSkip \/ MainResolve \/ MainLoop

Spec == Init /\ [][Next]_vars

(***************************************************************************)
(* C1.  A toolchain whose revision is unresolved (None or '') is skipped:  *)
(* CipdEnsure is never called for it, and once the revisions are resolved  *)
(* main returns 0 when every CipdEnsure call it made succeeded.            *)
(***************************************************************************)
UnresolvedToolchainsSkipped ==
    /\ \A i \in 1..Len(calls) : ~Falsy(tool_revisions[calls[i].toolchain])
    /\ ( /\ pc = "done"
         /\ revision_calls # {}
         /\ \A i \in 1..Len(calls) : calls[i].raised = "none" )
       => exit_code = 0

UnresolvedToolchainSkippedRun ==
    /\ pc = "done"
    /\ exit_code = 0
    /\ tool_revisions["nacl"] = None
    /\ tool_revisions["chromium-browser-clang"] = <<>>
    /\ Len(calls) = 1
    /\ calls[1].toolchain = "python"

TemplateMissingCase ==
    /\ ~Falsy(args.reproxy_cfg_template)
    /\ args.reproxy_cfg_template \notin DOMAIN templates

(***************************************************************************)
(* C2.  When the template named on the command line is no file, the run    *)
(* never resolves a revision, never calls CipdEnsure, never starts the     *)
(* fetch phase, raises nothing, leaves reproxy.cfg as it was, and returns  *)
(* 1 when it returns.                                                      *)
(***************************************************************************)
MissingTemplateStopsRun ==
    TemplateMissingCase =>
        /\ pc \in {"validate", "template", "done"}
        /\ pc = "done" => exit_code = 1
        /\ exc = "none"
        /\ ~rendered
        /\ revision_calls = {}
        /\ calls = <<>>
        /\ ~FetchStarted
        /\ reproxy_cfg = cfg_before

MissingTemplateRun ==
    /\ TemplateMissingCase
    /\ pc = "done"
    /\ "warning: template does not exist" \in log
    /\ reproxy_cfg = OldCfg

(***************************************************************************)
(* C3.  A CipdEnsure call that raised CipdAuthError is the last call of    *)
(* the run, whatever its position: the instructions are printed and main   *)
(* has returned 1.                                                         *)
(***************************************************************************)
AuthErrorAbortsRun ==
    \A i \in 1..Len(calls) :
        calls[i].raised = "CipdAuthError" =>
            /\ i = Len(calls)
            /\ printed
            /\ pc = "done"
            /\ exit_code = 1

AuthErrorOnSecondToolchain ==
    /\ Len(calls) = 2
    /\ calls[1].raised = "none"
    /\ calls[2].raised = "CipdAuthError"
    /\ calls[2].toolchain = "nacl"

UndefinedProjectCase ==
    /\ Falsy(args.rewrapper_cfg_project)
    /\ ~Falsy(args.rbe_instance)
    /\ RbeProjectFromInstance(args.rbe_instance) = None

(***************************************************************************)
(* C4.  With no explicit project and an instance that does not match the   *)
(* pattern, the run renders no template, calls CipdEnsure never, raises    *)
(* nothing and returns 1 when it returns.                                  *)
(***************************************************************************)
UndefinedProjectIsValidationFailure ==
    UndefinedProjectCase =>
        /\ ~rendered
        /\ calls = <<>>
        /\ pc # "raised"
        /\ pc = "done" => exit_code = 1

(***************************************************************************)
(* C5.  Revision resolution never raises: no run ends with an exception    *)
(* that left ClangRevision or NaclRevision.                                *)
(***************************************************************************)
ResolutionNeverRaises ==
    ~(pc = "raised" /\ exc \in {"CalledProcessError", "ModuleNotFoundError"})

(***************************************************************************)
(* C9.  For every CipdEnsure call: when `cipd ensure' succeeded nothing is *)
(* raised and `cipd auth-info' is not run; when it failed the probe is     *)
(* run, CipdAuthError is raised exactly when the probe's status is not 0   *)
(* and CipdError otherwise, and the exception carries the output of the    *)
(* failed command.                                                         *)
(***************************************************************************)
CipdFailuresClassified ==
    \A i \in 1..Len(calls) :
        LET c == calls[i]
        IN  IF c.ensure.rc = 0
            THEN c.raised = "none" /\ ~c.probed
            ELSE /\ c.probed
                 /\ c.raised = (IF c.auth_rc # 0 THEN "CipdAuthError"
                                ELSE "CipdError")
                 /\ c.payload = c.ensure.output

GenericErrorAfterSuccess ==
    /\ Len(calls) = 2
    /\ calls[1].ensure.rc = 0
    /\ calls[2].ensure.rc = 1
    /\ calls[2].auth_rc = 0
    /\ calls[2].raised = "CipdError"

(***************************************************************************)
(* C10.  Runs over checkouts that differ in what win-cross/<toolchain>     *)
(* holds beforehand.                                                       *)
(***************************************************************************)
InitCopy ==
    /\ args = [rewrapper_cfg_project |-> <<"q">>,
               reproxy_cfg_template |-> None,
               rbe_instance |-> MatchingInstance,
               cipd_prefix |-> "infra_internal/rbe/reclient_cfgs",
               skip_remoteexec_cfg_fetch |-> FALSE]
    /\ platform \in Platforms
    /\ templates = TemplateDir
    /\ reproxy_cfg = NoFile
    /\ nacl \in {NotCloned, GitCheckout(0, Hex40 \o <<"\n">>)}
    /\ clang = <<"l","l","v","m">>
    /\ wce \in [ToolchainSet -> WceDirs]
    /\ InitRun

SpecCopy == InitCopy /\ [][Next]_vars

\* The toolchains whose CipdEnsure call returned in this run.
Fetched == {calls[i].toolchain : i \in {j \in 1..Len(calls) :
                                             calls[j].raised = "none"}}

\* A file name that the pattern *.cfg matches.
IsStarCfg(name) ==
    /\ Len(name) >= Len(LitCfg)
    /\ \A k \in 1..Len(LitCfg) :
           name[Len(name) - Len(LitCfg) + k] = LitCfg[k]
    /\ Head(name) # "."

\* C10.  After a toolchain's successful fetch win-cross/<toolchain> exists;
\* when the fetched directory has a win-cross subdirectory, each of its
\* *.cfg files is in win-cross/<toolchain> with the fetched content, also
\* where a read-only file of that name was there before; when it has none,
\* win-cross/<toolchain> holds the files it held before the run.
WinCrossCfgsCopied ==
    \A t \in Fetched :
        /\ wce[t].exists
        /\ IF roots[t].wincross
           THEN \A f \in roots[t].files :
                    IsStarCfg(f.name) =>
                        \E g \in wce[t].files :
                            /\ g.name = f.name
                            /\ g.content = f.content
                            /\ \A h \in wce[t].files :
                                   h.name = f.name => h = g
           ELSE wce[t].files = wce_before[t].files

ReadOnlyCfgReplaced ==
    \E t \in Fetched :
        /\ File(ACfg, "old a", "r") \in wce_before[t].files
        /\ roots[t].wincross
        /\ File(ACfg, "new a", "r") \in wce[t].files
        /\ File(CCfg, "old c", "w") \in wce[t].files
        /\ \E u \in Fetched :
               /\ ~roots[u].wincross
               /\ wce_before[u].files # {}
               /\ wce[u].files = wce_before[u].files

(***************************************************************************)
(* C7.  Runs over instance strings spelled from the pieces of the pattern  *)
(* and characters the pattern refuses.                                     *)
(***************************************************************************)
MaxInstancePieces == 4

InstancePieces ==
    { LitProjects, LitInstances, <<"p">>, <<"-">>, <<"/">>, <<".">> }

InitInstance ==
    /\ args \in [rewrapper_cfg_project : {None, <<>>, <<"q">>},
                 reproxy_cfg_template : {None},
                 rbe_instance : {None} \cup
                     Spellings(InstancePieces, MaxInstancePieces),
                 cipd_prefix : {"infra_internal/rbe/reclient_cfgs"},
                 skip_remoteexec_cfg_fetch : {TRUE}]
    /\ platform = <<"l","i","n","u","x">>
    /\ templates = TemplateDir
    /\ reproxy_cfg = NoFile
    /\ nacl = NotCloned
    /\ clang = <<"l","l","v","m">>
    /\ wce = [t \in ToolchainSet |-> NoDir]
    /\ InitRun

NextInstance == MainValidate \/ MainTemplate \/ MainSkip

SpecInstance == InitInstance /\ [][NextInstance]_vars

\* The P of every way to read instance as projects/P/instances/I, with P and
\* I non-empty and of letters, digits, "_" and "-".
ProjectsOfForm(instance) ==
    { P \in { SubSeq(instance, Len(LitProjects) + 1, j) :
                  j \in (Len(LitProjects) + 1)..Len(instance) } :
        /\ AllIn(P, WordChars)
        /\ \E k \in 1..Len(instance) :
               /\ AllIn(SubSeq(instance, Len(instance) - k + 1,
                               Len(instance)), WordChars)
               /\ instance = LitProjects \o P \o LitInstances
                               \o SubSeq(instance, Len(instance) - k + 1,
                                         Len(instance)) }

\* C7.  Once main is past line 222, rbe_project is the explicit project when
\* one was given; else the P of the instance when the instance reads
\* projects/P/instances/I, and None when it does not.
ProjectDerivedFromInstance ==
    (pc # "validate" /\ "error: --rbe_instance or project needed" \notin log)
    => IF ~Falsy(args.rewrapper_cfg_project)
       THEN rbe_project = args.rewrapper_cfg_project
       ELSE IF ProjectsOfForm(args.rbe_instance) = {}
       THEN rbe_project = None
       ELSE ProjectsOfForm(args.rbe_instance) = {rbe_project}

ProjectDerivedRun ==
    /\ pc = "done"
    /\ args.rewrapper_cfg_project = None
    /\ args.rbe_instance = LitProjects \o <<"p">> \o LitInstances \o <<"-">>
    /\ rbe_project = <<"p">>

(***************************************************************************)
(* C6.  Runs over a native_client checkout without .git, over outputs of   *)
(* gclient revinfo spelled from the pieces of the expected line.           *)
(***************************************************************************)
MaxRevinfoPieces == 5

Hex39 == [i \in 1..(MinHexLen - 1) |-> "a"]

RevinfoPieces ==
    { PathAndUrl, <<"@">>, Hex40, Hex39, <<"a">>, <<"u">>, <<"\n">> }

InitNacl ==
    /\ args = [rewrapper_cfg_project |-> <<"q">>,
               reproxy_cfg_template |-> None,
               rbe_instance |-> MatchingInstance,
               cipd_prefix |-> "infra_internal/rbe/reclient_cfgs",
               skip_remoteexec_cfg_fetch |-> FALSE]
    /\ platform = <<"l","i","n","u","x">>
    /\ templates = TemplateDir
    /\ reproxy_cfg = NoFile
    /\ nacl \in { ExportedCheckout(0, out) :
                      out \in Spellings(RevinfoPieces, MaxRevinfoPieces) }
    /\ clang = <<"l","l","v","m">>
    /\ wce = [t \in ToolchainSet |-> NoDir]
    /\ InitRun

NextNacl == MainValidate \/ MainTemplate \/ MainSkip \/ MainResolve

SpecNacl == InitNacl /\ [][NextNacl]_vars

\* The commit of every way to read out, the white space around it aside,
\* as one line `path: url@commit' with a commit of at least 40 hex
\* characters.  Nothing is asked of `path: url' but to be on that line.
CommitsOfForm(out) ==
    LET line == Strip(out)
    IN  IF \E j \in 1..Len(line) : line[j] = "\n" THEN {}
        ELSE { SubSeq(line, k + 1, Len(line)) :
                 k \in { j \in 1..Len(line) :
                           /\ line[j] = "@"
                           /\ Len(line) - j >= MinHexLen
                           /\ AllIn(SubSeq(line, j + 1, Len(line)),
                                    HexChars) } }

\* C6.  In the fallback path NaclRevision raises nothing; its result is the
\* commit when the output is one line `path: url@commit' with a commit of
\* at least 40 hex characters, and for every other output it is None, with
\* a warning logged.
RevinfoParsedOrUnresolved ==
    /\ pc # "raised"
    /\ pc = "loop" =>
         IF CommitsOfForm(nacl.gclient_out) # {}
         THEN CommitsOfForm(nacl.gclient_out) = {tool_revisions["nacl"]}
         ELSE /\ tool_revisions["nacl"] = None
              /\ "warning: could not parse revinfo" \in log

(***************************************************************************)
(* C8.  Runs, and runs again, over templates spelled from "$", braces, a   *)
(* placeholder name and a letter.                                          *)
(***************************************************************************)
MaxTemplatePieces == 3

TemplatePieces ==
    { <<"$">>, <<"$","{">>, <<"}">>, KeyRbeInstance, <<"x">> }

InitRender ==
    /\ args \in { [rewrapper_cfg_project |-> a[1],
                   reproxy_cfg_template |-> <<"g">>,
                   rbe_instance |-> a[2],
                   cipd_prefix |-> "infra_internal/rbe/reclient_cfgs",
                   skip_remoteexec_cfg_fetch |-> TRUE] :
                  a \in { <<<<"q">>, MatchingInstance>>, <<None, <<"x">>>> } }
    /\ platform \in Platforms
    /\ templates \in { (<<"g">> :> t) :
                         t \in Spellings(TemplatePieces, MaxTemplatePieces) }
    /\ reproxy_cfg \in {NoFile, OldCfg}
    /\ nacl = NotCloned
    /\ clang = <<"l","l","v","m">>
    /\ wce = [t \in ToolchainSet |-> NoDir]
    /\ InitRun

NextRender == MainValidate \/ MainTemplate \/ MainSkip \/ Rerun

SpecRender == InitRender /\ [][NextRender]_vars

\* GenerateReproxyCfg was called in this run.
RenderCalled == pc \in {"skip", "done", "raised"}

\* The header and the template with the placeholders substituted.
Rendering ==
    Substitute(REPROXY_CFG_HEADER \o templates[args.reproxy_cfg_template],
               (KeyRbeInstance :> args.rbe_instance)
               @@ (KeyRbeProject :> rbe_project)
               @@ (KeyReproxyCfgTemplate :> args.reproxy_cfg_template)
               @@ (KeyDepsscannerAddress :> DepsscannerAddress(platform))
               @@ (KeyAuthFlags :> AuthFlags(platform)))

\* C8 as stated.  For every existing template the call returns True and
\* leaves reproxy.cfg equal to the rendering, whatever it held before.
EveryTemplateRendered ==
    RenderCalled => (rendered /\ reproxy_cfg = Rendering.out)

\* C8 as amended.  For every existing template that substitute accepts,
\* the call leaves reproxy.cfg equal to the rendering, whatever it held
\* before, and the next run leaves it as it found it; for a template that
\* substitute refuses the exception leaves main and reproxy.cfg is as it was.
AcceptedTemplateRendered ==
    RenderCalled =>
        IF Rendering.exc = "none"
        THEN /\ rendered
             /\ reproxy_cfg = Rendering.out
             /\ runs > 1 => reproxy_cfg = cfg_before
        ELSE /\ pc = "raised"
             /\ exc = Rendering.exc
             /\ reproxy_cfg = cfg_before

RenderedTwice ==
    /\ runs = 2
    /\ rendered
    /\ templates[<<"g">>] = <<"$","{">> \o KeyRbeInstance \o <<"}">>
    /\ args.rbe_instance = <<"x">>
    /\ reproxy_cfg = cfg_before
    /\ reproxy_cfg # OldCfg

====
